---- MODULE Spec2Model ----
(***************************************************************************)
(* Model of class StudBud (src/app.py): the student's profile, the focus   *)
(* areas, the study plan keyed by ISO date, plan generation day by day,    *)
(* the priority decision of one task, and loading a plan from a file.      *)
(*                                                                         *)
(* Texts that the code searches or concatenates (weaknesses, methods,      *)
(* tasks, date keys) are sequences of one-character strings.  Hours are    *)
(* exact fractions [num, den] in lowest terms.  Classifier scores are in   *)
(* hundredths (0.85 is 85).                                                *)
(***************************************************************************)
EXTENDS Integers, Sequences, FiniteSets, TLC

VARIABLES
    subjects,           \* self.subjects
    weaknesses,         \* self.weaknesses
    study_preferences,  \* self.study_preferences
    areas_to_focus,     \* self.areas_to_focus
    attrs,              \* names of the instance attributes that exist
    study_plan,         \* self.study_plan: ISO date key -> daily plan
    pc,                 \* "idle", or "generating" inside the loop of generate_study_plan
    frame,              \* locals of the current / latest generate_study_plan call
    n_generate,         \* number of generate_study_plan calls that entered the loop
    last_op,            \* the operation called last
    raised,             \* exception that left the last finished call, or "none"
    printed,            \* messages printed by the last call
    plan_before,        \* history: study_plan when the last operation was called
    calls               \* history: prioritize_task calls of the latest generate_daily_plan

vars == <<subjects, weaknesses, study_preferences, areas_to_focus, attrs,
          study_plan, pc, frame, n_generate, last_op, raised, printed,
          plan_before, calls>>

----------------------------------------------------------------------------
(* Bounds of the model *)

MaxDays == 2
MaxGenerates == 2
MaxDuration == 2

(* Program constants *)

ScoreThreshold == 70
MinTimeNum == 1
MinTimeDen == 2

----------------------------------------------------------------------------
(* Texts *)

Range(s) == {s[i] : i \in 1..Len(s)}

\* Python's  w in t  on strings
IsSubstring(w, t) ==
    \E i \in 0..(Len(t) - Len(w)) : SubSeq(t, i + 1, i + Len(w)) = w

ReviewPrefix == <<"R", "e", "v", "i", "e", "w", " ">>
UsingInfix == <<" ", "u", "s", "i", "n", "g", " ">>

\* f"Review {focus} using {method}"
TaskText(focus, method) == ReviewPrefix \o focus \o UsingInfix \o method

----------------------------------------------------------------------------
(* Calendar dates: datetime.date, timedelta(days=1), strftime("%Y-%m-%d") *)

IsLeap(y) == (y % 4 = 0 /\ y % 100 # 0) \/ (y % 400 = 0)

DaysInMonth(y, m) ==
    IF m = 2 THEN (IF IsLeap(y) THEN 29 ELSE 28)
    ELSE IF m \in {4, 6, 9, 11} THEN 30 ELSE 31

Date(y, m, d) == [year |-> y, month |-> m, day |-> d]

\* a bug: February always has 28 days
NextDay_NoLeapDay(dt) ==
    IF dt.day < (IF dt.month = 2 THEN 28 ELSE DaysInMonth(dt.year, dt.month))
    THEN Date(dt.year, dt.month, dt.day + 1)
    ELSE IF dt.month < 12
         THEN Date(dt.year, dt.month + 1, 1)
         ELSE Date(dt.year + 1, 1, 1)

\* date + datetime.timedelta(days=1)
NextDay(dt) ==
    IF dt.day < DaysInMonth(dt.year, dt.month)
    THEN Date(dt.year, dt.month, dt.day + 1)
    ELSE IF dt.month < 12
         THEN Date(dt.year, dt.month + 1, 1)
         ELSE Date(dt.year + 1, 1, 1)

Digits == <<"0", "1", "2", "3", "4", "5", "6", "7", "8", "9">>

Digit(n) == Digits[n + 1]

Pad2(n) == <<Digit((n \div 10) % 10), Digit(n % 10)>>

Pad4(n) == <<Digit((n \div 1000) % 10), Digit((n \div 100) % 10)>> \o Pad2(n)

\* date.strftime("%Y-%m-%d")
Strftime(dt) == Pad4(dt.year) \o <<"-">> \o Pad2(dt.month) \o <<"-">> \o Pad2(dt.day)

----------------------------------------------------------------------------
(* Hours as exact fractions *)

RECURSIVE GCD(_, _)
GCD(a, b) == IF b = 0 THEN a ELSE GCD(b, a % b)

Rat(n, d) == LET g == GCD(n, d) IN [num |-> n \div g, den |-> d \div g]

\* a bug: no minimum of half an hour
TimePerSubject_NoFloor(available_time, n) == Rat(available_time, n)

\* available_time / len(self.subjects), then max(0.5, time_per_subject)
TimePerSubject(available_time, n) ==
    IF available_time * MinTimeDen > MinTimeNum * n
    THEN Rat(available_time, n)
    ELSE Rat(MinTimeNum, MinTimeDen)

----------------------------------------------------------------------------
(* The classifier: what self.nlp_model(task_description) can do *)

Response(k, l, s) == [kind |-> k, label |-> l, score |-> s]

\* the call raises
ClsRaises == Response("raises", "", 0)
\* the call returns an empty list: result[0] fails
ClsEmpty == Response("empty", "", 0)
\* the call returns a label with a score that is not a number
ClsBadScore == Response("badscore", "NEGATIVE", 0)

Responses ==
    { ClsRaises, ClsEmpty, ClsBadScore,
      Response("ok", "NEGATIVE", 85),
      Response("ok", "NEGATIVE", ScoreThreshold),
      Response("ok", "POSITIVE", 90) }

----------------------------------------------------------------------------
(* prioritize_task *)

Returned(v) == [exc |-> "none", value |-> v]
Raised(e) == [exc |-> e, value |-> "none"]

\* lines 142-148: the classifier call and the reading of label and score
ExtractionFails(r) == r.kind \in {"raises", "empty"}

\* line 151:  and  reaches  score > 0.7  only for the label NEGATIVE, and
\* comparing a score that is not a number raises TypeError outside the try
ComparisonFails(r) == r.label = "NEGATIVE" /\ r.kind = "badscore"

\* a bug: score >= 0.7
StronglyNegative_AtLeast(r) == r.label = "NEGATIVE" /\ r.score >= ScoreThreshold

\* line 151
StronglyNegative(r) == r.label = "NEGATIVE" /\ r.score > ScoreThreshold

\* a bug: the task must equal the weakness
AddressesWeakness_Equal(subject, task_description) ==
    weaknesses[subject] = task_description

\* line 154
AddressesWeakness(subject, task_description) ==
    IsSubstring(weaknesses[subject], task_description)

\* a bug: the weakness check comes before the sentiment check
prioritize_task_WeaknessFirst(subject, task_description, r) ==
    IF ExtractionFails(r) THEN Returned("Medium")
    ELSE IF subject \notin DOMAIN weaknesses THEN Raised("KeyError")
    ELSE IF AddressesWeakness(subject, task_description) THEN Returned("Medium")
    ELSE IF ComparisonFails(r) THEN Raised("TypeError")
    ELSE IF StronglyNegative(r) THEN Returned("High")
    ELSE Returned("Low")

prioritize_task(subject, task_description, r) ==
    IF ExtractionFails(r) THEN Returned("Medium")
    ELSE IF ComparisonFails(r) THEN Raised("TypeError")
    ELSE IF StronglyNegative(r) THEN Returned("High")
    ELSE IF subject \notin DOMAIN weaknesses THEN Raised("KeyError")
    ELSE IF AddressesWeakness(subject, task_description) THEN Returned("Medium")
    ELSE Returned("Low")

----------------------------------------------------------------------------
(* State after construction *)

EmptyMap == [s \in {} |-> <<>>]

NoPreferences ==
    [study_time |-> "", study_duration |-> 0, study_environment |-> "",
     study_methods |-> <<>>]

\* start_date, num_days, current_date and day are the locals of
\* generate_study_plan; last_key is the key it assigned last; conforming says
\* that every classifier response of the call so far was a result with a
\* numeric score or a failure that prioritize_task catches
NoFrame ==
    [start_date |-> Date(1, 1, 1), num_days |-> 0,
     current_date |-> Date(1, 1, 1), day |-> 0,
     last_key |-> <<>>, conforming |-> TRUE]

Init ==
    /\ subjects = <<>>
    /\ weaknesses = EmptyMap
    /\ study_preferences = NoPreferences
    /\ areas_to_focus = EmptyMap
    /\ attrs = {"subjects", "study_plan"}
    /\ study_plan = EmptyMap
    /\ pc = "idle"
    /\ frame = NoFrame
    /\ n_generate = 0
    /\ last_op = "__init__"
    /\ raised = "none"
    /\ printed = {}
    /\ plan_before = EmptyMap
    /\ calls = <<>>

----------------------------------------------------------------------------
(* Inputs *)

SubjectLists ==
    { <<"Math">>, <<"Math", "History">>, <<"Math", "Math">> }

WeaknessTexts == { <<"c">>, <<"e">> }

MethodLists == { <<<<"F">>>>, <<<<"F">>, <<"c">>>> }

Places == { <<"Morning", "Library">>, <<"Evening", "Quiet room">> }

StartDates == { Date(2023, 12, 31), Date(2024, 1, 1), Date(2024, 2, 28) }

\* the files on disk: one holds a saved plan, one is not JSON, one is absent
StoredPlan ==
    (Strftime(Date(2024, 1, 1)) :>
        [date |-> Strftime(Date(2024, 1, 1)),
         study_blocks |-> << [subject |-> "Art", time |-> Rat(3, 2),
                              task |-> TaskText(<<"p">>, <<"F">>),
                              priority |-> "Low"] >>,
         environment |-> "Studio",
         preferred_time |-> "Night"])

FileNames == {"study_plan.json", "notes.txt", "absent.json"}

FileState(filename) ==
    IF filename = "study_plan.json" THEN "json"
    ELSE IF filename = "notes.txt" THEN "malformed"
    ELSE "missing"

----------------------------------------------------------------------------
(* gather_student_info *)

\* lines 39-41: a later answer for the same subject replaces the earlier one
AnswersToMap(subs, ans) ==
    [s \in Range(subs) |->
        LET last == CHOOSE i \in 1..Len(subs) :
                        /\ subs[i] = s
                        /\ \A j \in 1..Len(subs) : subs[j] = s => j <= i
        IN ans[last]]

gather_student_info(subs, ans, place, duration, methods) ==
    /\ pc = "idle"
    /\ subjects' = subs
    /\ weaknesses' = AnswersToMap(subs, ans)
    /\ study_preferences' =
          [study_time |-> place[1], study_duration |-> duration,
           study_environment |-> place[2], study_methods |-> methods]
    /\ attrs' = attrs \cup {"weaknesses", "study_preferences"}
    /\ last_op' = "gather_student_info"
    /\ raised' = "none"
    /\ printed' = {"Hello"}
    /\ plan_before' = study_plan
    /\ UNCHANGED <<areas_to_focus, study_plan, pc, frame, n_generate, calls>>

(* analyze_student_data *)

\* lines 62-70
FocusAreas == [s \in Range(subjects) |-> weaknesses[s]]

analyze_student_data ==
    /\ pc = "idle"
    /\ areas_to_focus' = FocusAreas
    /\ attrs' = attrs \cup {"areas_to_focus"}
    /\ last_op' = "analyze_student_data"
    /\ raised' = "none"
    /\ printed' = {"Analyzing"}
    /\ plan_before' = study_plan
    /\ UNCHANGED <<subjects, weaknesses, study_preferences, study_plan, pc,
                   frame, n_generate, calls>>

----------------------------------------------------------------------------
(* generate_daily_plan *)

\* what one pass of the loop over the subjects (lines 110-118) does for
\* subject number i, with the method index m and the classifier response r
BlockOutcome(i, m, r) ==
    LET subject == subjects[i] IN
    IF "areas_to_focus" \notin attrs THEN Raised("AttributeError")
    ELSE IF subject \notin DOMAIN areas_to_focus THEN Raised("KeyError")
    ELSE prioritize_task(subject,
                         TaskText(areas_to_focus[subject],
                                  study_preferences.study_methods[m]), r)

StudyBlock(i, m, r) ==
    LET subject == subjects[i]
        task == TaskText(areas_to_focus[subject], study_preferences.study_methods[m])
    IN [subject |-> subject,
        time |-> TimePerSubject(study_preferences.study_duration, Len(subjects)),
        task |-> task,
        priority |-> prioritize_task(subject, task, r).value]

\* a bug: environment and preferred time exchanged
DailyPlan_Swapped(date, blocks) ==
    [date |-> Strftime(date),
     study_blocks |-> blocks,
     environment |-> study_preferences.study_time,
     preferred_time |-> study_preferences.study_environment]

\* lines 121-124
DailyPlan(date, blocks) ==
    [date |-> Strftime(date),
     study_blocks |-> blocks,
     environment |-> study_preferences.study_environment,
     preferred_time |-> study_preferences.study_time]

\* the prioritize_task call made for subject number i
CallRecord(i, m, r) ==
    LET subject == subjects[i]
        task == TaskText(areas_to_focus[subject], study_preferences.study_methods[m])
        out == prioritize_task(subject, task, r)
    IN [subject |-> subject, task_description |-> task,
        weakness |-> weaknesses[subject], response |-> r,
        exc |-> out.exc, result |-> out.value]

\* the subjects at which the loop raises
FailingAt(ms, rs) ==
    {i \in 1..Len(subjects) : BlockOutcome(i, ms[i], rs[i]).exc # "none"}

FirstOf(S) == CHOOSE i \in S : \A j \in S : i <= j

\* the calls of prioritize_task made before the loop ends or raises: a
\* failing lookup of the focus area (line 112) comes before the call
CallsMade(ms, rs) ==
    LET F == FailingAt(ms, rs)
        n == IF F = {} THEN Len(subjects)
             ELSE IF "areas_to_focus" \notin attrs
                     \/ subjects[FirstOf(F)] \notin DOMAIN areas_to_focus
                  THEN FirstOf(F) - 1
                  ELSE FirstOf(F)
    IN [i \in 1..n |-> CallRecord(i, ms[i], rs[i])]

\* a bug: the check for an empty subject list is missing
NoSubjects_Unchecked == FALSE

\* line 80
NoSubjects == subjects = <<>>

\* a bug: the plan is started afresh
PlanWith_Fresh(plan, key, daily_plan) == [k \in {key} |-> daily_plan]

\* line 89: self.study_plan[key] = daily_plan
PlanWith(plan, key, daily_plan) ==
    [k \in DOMAIN plan \cup {key} |-> IF k = key THEN daily_plan ELSE plan[k]]

Conforming(cs) == \A i \in 1..Len(cs) : cs[i].response.kind # "badscore"

(* generate_study_plan: lines 80-87, up to the loop *)

generate_study_plan(start_date, num_days) ==
    /\ pc = "idle"
    /\ n_generate < MaxGenerates
    /\ last_op' = "generate_study_plan"
    /\ plan_before' = study_plan
    /\ raised' = "none"
    /\ frame' = [start_date |-> start_date, num_days |-> num_days,
                 current_date |-> start_date, day |-> 0,
                 last_key |-> <<>>, conforming |-> TRUE]
    /\ IF NoSubjects
       THEN /\ printed' = {"No subjects defined"}
            /\ pc' = "idle"
            /\ UNCHANGED n_generate
       ELSE /\ printed' = {}
            /\ pc' = IF num_days > 0 THEN "generating" ELSE "idle"
            /\ n_generate' = n_generate + 1
    /\ UNCHANGED <<subjects, weaknesses, study_preferences, areas_to_focus,
                   attrs, study_plan, calls>>

(* generate_study_plan: one pass of the loop, lines 88-90 *)

generate_study_plan_day(ms, rs) ==
    /\ pc = "generating"
    /\ LET F == FailingAt(ms, rs)
           date == frame.current_date
           made == IF Len(subjects) = 0 THEN <<>> ELSE CallsMade(ms, rs)
           reported == IF \E i \in 1..Len(made) : ExtractionFails(made[i].response)
                       THEN {"Error performing sentiment analysis"} ELSE {}
           ok == frame.conforming /\ Conforming(made)
       IN /\ calls' = made
          /\ printed' = printed \cup reported
          /\ IF Len(subjects) = 0
             THEN \* line 107
                  /\ raised' = "ZeroDivisionError"
                  /\ pc' = "idle"
                  /\ UNCHANGED <<study_plan, frame>>
             ELSE IF F # {}
             THEN /\ raised' = BlockOutcome(FirstOf(F), ms[FirstOf(F)],
                                            rs[FirstOf(F)]).exc
                  /\ pc' = "idle"
                  /\ frame' = [frame EXCEPT !.conforming = ok]
                  /\ UNCHANGED study_plan
             ELSE /\ study_plan' =
                        PlanWith(study_plan, Strftime(date),
                                 DailyPlan(date,
                                    [i \in 1..Len(subjects) |->
                                        StudyBlock(i, ms[i], rs[i])]))
                  /\ frame' = [frame EXCEPT
                                 !.current_date = NextDay(date),
                                 !.day = frame.day + 1,
                                 !.last_key = Strftime(date),
                                 !.conforming = ok]
                  /\ pc' = IF frame.day + 1 < frame.num_days
                           THEN "generating" ELSE "idle"
                  /\ UNCHANGED raised
    /\ UNCHANGED <<subjects, weaknesses, study_preferences, areas_to_focus,
                   attrs, n_generate, last_op, plan_before>>

----------------------------------------------------------------------------
(* load_study_plan *)

\* a bug: the plan is cleared before the file is opened
LoadOutcome_ClearsFirst(filename, plan) ==
    IF FileState(filename) = "missing"
    THEN [plan |-> EmptyMap, raised |-> "none", printed |-> {"File not found"}]
    ELSE IF FileState(filename) = "malformed"
    THEN [plan |-> EmptyMap, raised |-> "JSONDecodeError", printed |-> {}]
    ELSE [plan |-> StoredPlan, raised |-> "none", printed |-> {"Study plan loaded"}]

\* lines 201-206: the plan, the exception and the messages after the call
LoadOutcome(filename, plan) ==
    IF FileState(filename) = "missing"
    THEN [plan |-> plan, raised |-> "none", printed |-> {"File not found"}]
    ELSE IF FileState(filename) = "malformed"
    THEN [plan |-> plan, raised |-> "JSONDecodeError", printed |-> {}]
    ELSE [plan |-> StoredPlan, raised |-> "none", printed |-> {"Study plan loaded"}]

load_study_plan(filename) ==
    /\ pc = "idle"
    /\ last_op' = "load_study_plan"
    /\ plan_before' = study_plan
    /\ study_plan' = LoadOutcome(filename, study_plan).plan
    /\ raised' = LoadOutcome(filename, study_plan).raised
    /\ printed' = LoadOutcome(filename, study_plan).printed
    /\ UNCHANGED <<subjects, weaknesses, study_preferences, areas_to_focus,
                   attrs, pc, frame, n_generate, calls>>

----------------------------------------------------------------------------
(* The calls a client can make, with their inputs drawn from given sets *)

Gather(SL, WT, PL, DU, ML) ==
    \E subs \in SL, place \in PL, duration \in DU, methods \in ML :
       \E ans \in [1..Len(subs) -> WT] :
          gather_student_info(subs, ans, place, duration, methods)

Generate(SD, ND) ==
    \E start_date \in SD, num_days \in ND : generate_study_plan(start_date, num_days)

GenerateDay(RS) ==
    \E ms \in [1..Len(subjects) -> 1..Len(study_preferences.study_methods)],
       rs \in [1..Len(subjects) -> RS] :
       generate_study_plan_day(ms, rs)

Load == \E filename \in FileNames : load_study_plan(filename)

----------------------------------------------------------------------------
(* Spec: the life of one object.  One subject, several generations over   *)
(* overlapping date ranges, loads in between.                              *)

LifeResponses ==
    { ClsRaises, ClsBadScore, Response("ok", "NEGATIVE", 85),
      Response("ok", "POSITIVE", 90) }

Next ==
    \/ Gather({<<"Math">>}, {<<"c">>}, {<<"Morning", "Library">>}, {1},
              {<<<<"F">>>>})
    \/ analyze_student_data
    \/ Generate(StartDates, 0..MaxDays)
    \/ GenerateDay(LifeResponses)
    \/ Load

Spec == Init /\ [][Next]_vars

----------------------------------------------------------------------------
(* DaySpec: one generated day for every profile, with focus areas that    *)
(* are missing, current or stale, and every classifier response.          *)

DayNext ==
    \/ (n_generate = 0 /\ Gather(SubjectLists, WeaknessTexts, Places,
                                 0..MaxDuration, MethodLists))
    \/ (n_generate = 0 /\ analyze_student_data)
    \/ (n_generate = 0 /\ Generate({Date(2024, 2, 29)}, {1}))
    \/ GenerateDay(Responses)

DaySpec == Init /\ [][DayNext]_vars

----------------------------------------------------------------------------
(* TimeSpec: the split of the daily hours over one, two or three subjects *)

TimeNext ==
    \/ (n_generate = 0 /\ Gather({<<"Math">>, <<"Math", "History">>,
                                   <<"Math", "History", "Art">>},
                                 WeaknessTexts, Places, 0..MaxDuration,
                                 {<<<<"F">>>>}))
    \/ (n_generate = 0 /\ analyze_student_data)
    \/ (n_generate = 0 /\ Generate({Date(2024, 2, 29)}, {1}))
    \/ GenerateDay({Response("ok", "POSITIVE", 90)})

TimeSpec == Init /\ [][TimeNext]_vars

----------------------------------------------------------------------------
(* The calendar, for stating the properties: ordinals of dates and the     *)
(* reading of an ISO 8601 key.                                             *)

DaysBeforeYear(y) ==
    (y - 1) * 365 + ((y - 1) \div 4) - ((y - 1) \div 100) + ((y - 1) \div 400)

DaysBeforeMonthTable == <<0, 31, 59, 90, 120, 151, 181, 212, 243, 273, 304, 334>>

Ordinal(dt) ==
    DaysBeforeYear(dt.year) + DaysBeforeMonthTable[dt.month]
    + (IF dt.month > 2 /\ IsLeap(dt.year) THEN 1 ELSE 0) + dt.day

DigitValue(c) == CHOOSE n \in 0..9 : Digits[n + 1] = c

IsIsoKey(k) ==
    /\ Len(k) = 10
    /\ k[5] = "-" /\ k[8] = "-"
    /\ \A i \in {1, 2, 3, 4, 6, 7, 9, 10} : k[i] \in Range(Digits)

ParseIso(k) ==
    Date(DigitValue(k[1]) * 1000 + DigitValue(k[2]) * 100
            + DigitValue(k[3]) * 10 + DigitValue(k[4]),
         DigitValue(k[6]) * 10 + DigitValue(k[7]),
         DigitValue(k[9]) * 10 + DigitValue(k[10]))

IsCalendarDate(dt) ==
    /\ dt.month \in 1..12
    /\ dt.day \in 1..(IF dt.month = 2 /\ ~IsLeap(dt.year) THEN 28
                      ELSE IF dt.month = 2 THEN 29
                      ELSE IF dt.month \in {4, 6, 9, 11} THEN 30 ELSE 31)

\* k is the ISO key of one of the n calendar days that begin at start
InRange(k, start, n) ==
    /\ IsIsoKey(k)
    /\ IsCalendarDate(ParseIso(k))
    /\ Ordinal(ParseIso(k)) - Ordinal(start) \in 0..(n - 1)

----------------------------------------------------------------------------
(* States the properties speak about *)

\* the latest call was generate_study_plan and it is over
GenerateDone == pc = "idle" /\ last_op = "generate_study_plan"

\* every subject has a focus area
FocusAreasReady ==
    /\ "areas_to_focus" \in attrs
    /\ Range(subjects) \subseteq DOMAIN areas_to_focus

\* generate_daily_plan has returned a plan in the current call; it is
\* study_plan[frame.last_key], and calls holds its prioritize_task calls
DayBuilt ==
    /\ last_op = "generate_study_plan"
    /\ raised = "none"
    /\ frame.day >= 1

LastDay == study_plan[frame.last_key]

\* the latest call was load_study_plan and the file was missing
FailedLoad ==
    /\ pc = "idle"
    /\ last_op = "load_study_plan"
    /\ "File not found" \in printed

----------------------------------------------------------------------------
(* C1: a generate_study_plan call on an empty plan, for a non-empty        *)
(* subject list with focus areas and num_days = N > 0, with a classifier   *)
(* that returns numeric scores or fails, returns normally and leaves       *)
(* exactly N entries; their keys are the ISO dates of the N consecutive    *)
(* calendar days from start_date on, and each entry's date is its key.     *)
C1_ConsecutiveDays ==
    ( /\ GenerateDone
      /\ subjects # <<>>
      /\ FocusAreasReady
      /\ frame.conforming
      /\ frame.num_days > 0
      /\ plan_before = EmptyMap )
    => /\ raised = "none"
       /\ Cardinality(DOMAIN study_plan) = frame.num_days
       /\ \A k \in DOMAIN study_plan :
             /\ InRange(k, frame.start_date, frame.num_days)
             /\ study_plan[k].date = k

C1_Witness ==
    /\ GenerateDone
    /\ subjects # <<>>
    /\ FocusAreasReady
    /\ frame.conforming
    /\ plan_before = EmptyMap
    /\ frame.num_days = 2
    /\ frame.start_date = Date(2024, 2, 28)
    /\ Cardinality(DOMAIN study_plan) = 2

C3_FailSoft ==
    \A i \in 1..Len(calls) :
       calls[i].response.kind # "ok"
       => /\ calls[i].exc = "none"
          /\ calls[i].result = "Medium"
          /\ FocusAreasReady =>
                /\ raised = "none"
                /\ Len(LastDay.study_blocks) = Len(subjects)

(* C4: a block whose classifier response is NEGATIVE with a score above    *)
(* 0.7 has priority High, whether or not the weakness is in the task.      *)
C4_NegativeIsHigh ==
    DayBuilt =>
       \A i \in 1..Len(calls) :
          ( /\ calls[i].response.kind = "ok"
            /\ calls[i].response.label = "NEGATIVE"
            /\ calls[i].response.score > 70 )
          => LastDay.study_blocks[i].priority = "High"

C4_Witness ==
    /\ DayBuilt
    /\ Len(calls) = 2
    /\ \A i \in 1..Len(calls) : calls[i].response = Response("ok", "NEGATIVE", 85)
    /\ \A i \in 1..Len(calls) : LastDay.study_blocks[i].priority = "High"
    /\ IsSubstring(calls[1].weakness, calls[1].task_description)
    /\ ~IsSubstring(calls[2].weakness, calls[2].task_description)

(* C5: the priority that prioritize_task returns is High, Medium or Low;   *)
(* for a classifier result it is High iff the label is NEGATIVE and the    *)
(* score is above 0.7, else Medium iff the weakness is a substring of the  *)
(* task, else Low; a caught classifier failure gives Medium; equal         *)
(* weakness, task and response give equal priority.                        *)
C5_FirstMatch ==
    \A i \in 1..Len(calls) :
       LET c == calls[i]
           negative == c.response.label = "NEGATIVE" /\ c.response.score > 70
           inTask == IsSubstring(c.weakness, c.task_description)
       IN c.exc = "none" =>
            /\ c.result \in {"High", "Medium", "Low"}
            /\ c.response.kind = "ok" =>
                 /\ c.result = "High" <=> negative
                 /\ c.result = "Medium" <=> (~negative /\ inTask)
                 /\ c.result = "Low" <=> (~negative /\ ~inTask)
            /\ c.response.kind \in {"raises", "empty"} => c.result = "Medium"
            /\ \A j \in 1..Len(calls) :
                  ( /\ calls[j].weakness = c.weakness
                    /\ calls[j].task_description = c.task_description
                    /\ calls[j].response = c.response )
                  => calls[j].result = c.result

C5_Witness ==
    /\ Len(calls) = 2
    /\ calls[1].response = Response("ok", "NEGATIVE", 70)
    /\ calls[1].result = "Low"
    /\ calls[2].response = Response("ok", "POSITIVE", 90)
    /\ calls[2].result = "Medium"

(* C6: with n subjects and d declared hours, every block of a daily plan   *)
(* has time max(1/2, d/n), so at least half an hour; the blocks of a day   *)
(* have equal times; the day's total n * time is at least d and exceeds d  *)
(* exactly when d/n < 1/2.                                                 *)
C6_HalfHourFloor ==
    DayBuilt =>
       LET n == Len(subjects)
           d == study_preferences.study_duration
           blocks == LastDay.study_blocks
       IN \A i \in 1..Len(blocks) :
             LET t == blocks[i].time IN
             /\ t.den > 0
             /\ 2 * t.num >= t.den
             /\ t.num * n >= d * t.den
             /\ (2 * t.num = t.den) \/ (t.num * n = d * t.den)
             /\ t = blocks[1].time
             /\ (n * t.num > d * t.den) <=> (2 * d < n)

C6_Witness ==
    /\ DayBuilt
    /\ Len(subjects) = 3
    /\ study_preferences.study_duration = 1
    /\ Len(LastDay.study_blocks) = 3
    /\ LastDay.study_blocks[3].time = [num |-> 1, den |-> 2]

(* C7 as claimed: after a load from a missing file the study plan is       *)
(* empty, whatever it held before.                                         *)
C7_Original == FailedLoad => study_plan = EmptyMap

(* C7 amended: a load from a missing file prints "File not found", raises  *)
(* nothing and leaves the study plan exactly as it was before the call     *)
(* (empty only if it was empty).                                           *)
C7_PlanKept ==
    FailedLoad => (study_plan = plan_before /\ raised = "none")

C7_Witness ==
    /\ FailedLoad
    /\ Cardinality(DOMAIN study_plan) >= 2

(* C8: a daily plan has one block per entry of the subject list, in the    *)
(* order of the list, duplicates included; each task is "Review <focus     *)
(* area> using <m>" with m one of the study methods; environment and       *)
(* preferred_time are those of the preferences.                            *)
C8_DailyPlanShape ==
    DayBuilt =>
       /\ Len(LastDay.study_blocks) = Len(subjects)
       /\ \A i \in 1..Len(subjects) :
             /\ LastDay.study_blocks[i].subject = subjects[i]
             /\ \E m \in Range(study_preferences.study_methods) :
                   LastDay.study_blocks[i].task =
                      <<"R", "e", "v", "i", "e", "w", " ">>
                      \o areas_to_focus[subjects[i]]
                      \o <<" ", "u", "s", "i", "n", "g", " ">> \o m
       /\ LastDay.environment = study_preferences.study_environment
       /\ LastDay.preferred_time = study_preferences.study_time

C8_Witness ==
    /\ DayBuilt
    /\ subjects = <<"Math", "Math">>
    /\ Len(LastDay.study_blocks) = 2
    /\ LastDay.study_blocks[1].task # LastDay.study_blocks[2].task
    /\ LastDay.environment = "Quiet room"

(* C9: when every focus area is the subject's weakness, as                 *)
(* analyze_student_data leaves it, every block of a generated day has      *)
(* priority High or Medium, never Low, for every method and every          *)
(* classifier response.                                                    *)
C9_NeverLow ==
    ( /\ DayBuilt
      /\ \A s \in Range(subjects) : areas_to_focus[s] = weaknesses[s] )
    => \A i \in 1..Len(LastDay.study_blocks) :
          LastDay.study_blocks[i].priority \in {"High", "Medium"}

C9_Witness ==
    /\ DayBuilt
    /\ \A s \in Range(subjects) : areas_to_focus[s] = weaknesses[s]
    /\ Len(calls) = 2
    /\ calls[1].response = Response("ok", "POSITIVE", 90)
    /\ calls[2].response = Response("ok", "NEGATIVE", 70)
    /\ LastDay.study_blocks[1].priority = "Medium"
    /\ LastDay.study_blocks[2].priority = "Medium"

(* C10: generate_study_plan never clears the plan.  Each of its steps      *)
(* leaves subjects, weaknesses, focus areas and preferences unchanged,     *)
(* keeps every entry whose key is outside the call's date range as it was  *)
(* and adds keys only inside the range; a call that ran to its end leaves  *)
(* as key set the earlier key set together with the call's range, with     *)
(* the entries of the range written by this call.                          *)
C10_OnlyOwnRange ==
    /\ [][ last_op' = "generate_study_plan" =>
             /\ UNCHANGED <<subjects, weaknesses, areas_to_focus, study_preferences>>
             /\ \A k \in DOMAIN study_plan :
                   /\ k \in DOMAIN study_plan'
                   /\ ~InRange(k, frame'.start_date, frame'.num_days)
                         => study_plan'[k] = study_plan[k]
             /\ \A k \in DOMAIN study_plan' \ DOMAIN study_plan :
                   InRange(k, frame'.start_date, frame'.num_days) ]_vars
    /\ []( ( /\ GenerateDone
             /\ subjects # <<>>
             /\ FocusAreasReady
             /\ frame.conforming )
           => /\ DOMAIN plan_before \subseteq DOMAIN study_plan
              /\ \A k \in DOMAIN study_plan :
                    \/ InRange(k, frame.start_date, frame.num_days)
                    \/ k \in DOMAIN plan_before /\ study_plan[k] = plan_before[k]
              /\ Cardinality({k \in DOMAIN study_plan :
                                InRange(k, frame.start_date, frame.num_days)})
                   = frame.num_days
              /\ \A k \in DOMAIN study_plan :
                    InRange(k, frame.start_date, frame.num_days)
                    => /\ study_plan[k].date = k
                       /\ study_plan[k].environment
                             = study_preferences.study_environment )

C10_Witness ==
    /\ GenerateDone
    /\ raised = "none"
    /\ n_generate = 2
    /\ frame.num_days = 2
    /\ Cardinality(DOMAIN study_plan) > frame.num_days
    /\ \E k \in DOMAIN plan_before : InRange(k, frame.start_date, frame.num_days)
    /\ \E k \in DOMAIN plan_before : ~InRange(k, frame.start_date, frame.num_days)

====
